---------------------------- MODULE Spec2Model ----------------------------
(***************************************************************************)
(* A model of the session orchestration core of NotesBrainGem:             *)
(* StateService (src/unnamed/part_001) and the system instruction builder  *)
(* (second half of src/src/utils/config.ts).                               *)
(*                                                                         *)
(* Every async method of StateService is a task: the code between two      *)
(* awaits of an external call (close, connect, microphone, stream, image   *)
(* model, content analysis) is one atomic action, as JavaScript runs it.   *)
(* The continuation that follows the await of an already settled internal  *)
(* promise (await this.resetSession(false) returning) runs in a microtask  *)
(* before any other event is served, so it belongs to the same action.     *)
(*                                                                         *)
(* Modelled fields of AppState: analyses, selectedAnalysisId,              *)
(* activePersona, systemInstruction, chatHistory, isChatting, isRecording, *)
(* lastGeneratedImages, processingState, savedSessions, searchHistory,     *)
(* timelineEvents                                                          *)
(* (its events of type 'history', which the session methods log); and the  *)
(* two handles session and textChatSession.                                *)
(***************************************************************************)
EXTENDS Integers, Sequences, FiniteSets, Bags, TLC

Null == "null"

\* ------------------------------------------------------------------ bounds
MaxAnalyses == 2     \* analyses the content analysis engine creates in a run
MaxConns    == 2     \* voice connections that exist at the same time
MaxTasks    == 2     \* calls of the UI in flight at the same time
MaxTurns    == 3     \* text turns accepted in a run
MaxFrags    == 2     \* fragments a streamed response is split into
MaxSaved    == 1     \* saved sessions kept at the same time
MaxSummary  == 2     \* pieces of a summary (one text and the inserted images)
MaxSubs     == 3     \* subscribe calls of a run
MaxEvents   == 3     \* timeline events of type 'history' logged in a run
MaxHistory  == 3     \* entries of the search history

\* ------------------------------------------------------------------- text
\* A text is a sequence of one-character strings.
IsSpace(c) == c \in {" ", "\n", "\t"}
IsDigit(c) == c \in {"0", "1", "2", "3", "4", "5", "6", "7", "8", "9"}

RECURSIVE TrimStart(_)
TrimStart(s) ==
  IF s # <<>> /\ IsSpace(Head(s)) THEN TrimStart(Tail(s)) ELSE s

RECURSIVE TrimEnd(_)
TrimEnd(s) ==
  IF s # <<>> /\ IsSpace(s[Len(s)]) THEN TrimEnd(SubSeq(s, 1, Len(s) - 1)) ELSE s

\* String.prototype.trim
Trim(s) == TrimEnd(TrimStart(s))

\* s has the literal lit at position i
HasAt(s, i, lit) ==
  /\ i + Len(lit) - 1 <= Len(s)
  /\ SubSeq(s, i, i + Len(lit) - 1) = lit

\* character classes of the two regular expressions: \s, \d and [^']
InClass(c, cls) ==
  CASE cls = "\\s"  -> IsSpace(c)
    [] cls = "\\d"  -> IsDigit(c)
    [] cls = "[^']" -> c # "'"

\* the first position >= i of s whose character is not in the class (Len(s)+1 if none)
RECURSIVE SkipWhile(_, _, _)
SkipWhile(s, i, cls) ==
  IF i <= Len(s) /\ InClass(s[i], cls) THEN SkipWhile(s, i + 1, cls) ELSE i

DigitValue(c) ==
  CASE c = "0" -> 0 [] c = "1" -> 1 [] c = "2" -> 2 [] c = "3" -> 3 [] c = "4" -> 4
    [] c = "5" -> 5 [] c = "6" -> 6 [] c = "7" -> 7 [] c = "8" -> 8 [] c = "9" -> 9

\* parseInt(digits, 10) of a non-empty digit sequence
RECURSIVE parseInt(_)
parseInt(ds) ==
  IF ds = <<>> THEN 0
  ELSE parseInt(SubSeq(ds, 1, Len(ds) - 1)) * 10 + DigitValue(ds[Len(ds)])

NoMatch == [found |-> FALSE]

\* the tail  \s*'([^']+)']  of both directive grammars, tried at position i
QuotedTailAt(s, i) ==
  LET q  == SkipWhile(s, i, "\\s")
      e  == SkipWhile(s, q + 1, "[^']")
  IN IF /\ q <= Len(s) /\ s[q] = "'"
        /\ e > q + 1
        /\ HasAt(s, e, <<"'", "]">>)
     THEN [found |-> TRUE, prompt |-> SubSeq(s, q + 1, e - 1), last |-> e + 1]
     ELSE NoMatch

GenerateOpen == <<"[","g","e","n","e","r","a","t","e","_","i","m","a","g","e","s","(">>
EditOpen     == <<"[","e","d","i","t","_","i","m","a","g","e",":">>

\* generateRegex = /\[generate_images\((\d+)\):\s*'([^']+)']/ tried at position i
generateRegexAt(s, i) ==
  IF ~HasAt(s, i, GenerateOpen) THEN NoMatch
  ELSE LET d == i + Len(GenerateOpen)
           c == SkipWhile(s, d, "\\d")
       IN IF c > d /\ HasAt(s, c, <<")", ":">>)
          THEN LET t == QuotedTailAt(s, c + 2)
               IN IF t.found
                  THEN [found |-> TRUE, first |-> i, last |-> t.last,
                        count |-> parseInt(SubSeq(s, d, c - 1)), prompt |-> t.prompt]
                  ELSE NoMatch
          ELSE NoMatch

\* editRegex = /\[edit_image:\s*'([^']+)']/ tried at position i
editRegexAt(s, i) ==
  IF ~HasAt(s, i, EditOpen) THEN NoMatch
  ELSE LET t == QuotedTailAt(s, i + Len(EditOpen))
       IN IF t.found
          THEN [found |-> TRUE, first |-> i, last |-> t.last, prompt |-> t.prompt]
          ELSE NoMatch

\* String.prototype.match with a non-global regex: the leftmost match
RegexAt(s, i, re) ==
  IF re = "generate" THEN generateRegexAt(s, i) ELSE editRegexAt(s, i)

RECURSIVE FirstMatch(_, _, _)
FirstMatch(s, i, re) ==
  IF i > Len(s) THEN NoMatch
  ELSE IF RegexAt(s, i, re).found THEN RegexAt(s, i, re) ELSE FirstMatch(s, i + 1, re)

\* accumulatedText.match(generateRegex), accumulatedText.match(editRegex)
generateRegex(s) == FirstMatch(s, 1, "generate")
editRegex(s)     == FirstMatch(s, 1, "edit")

\* String.prototype.replace(regex, '') for the match m of s
RemoveMatch(s, m) == SubSeq(s, 1, m.first - 1) \o SubSeq(s, m.last + 1, Len(s))

\* ------------------------------------------------- system instruction builder
\* the keys of personaInstructions
personaInstructions == {"tutor", "coding-engineer", "direct", "data-analyst"}

\* A summary is a sequence of pieces: [text |-> ...] is plain text. The summary of
\* a workflow analysis is meant to be a JSON envelope: one piece
\* [summary_base64, summary], a field that is absent being Null.
IsJson(summary) == Len(summary) = 1 /\ DOMAIN summary[1] = {"summary_base64", "summary"}

\* atob: the bytes a base64 text stands for; it throws (ok is FALSE) on a text
\* that is not base64
atob(b64) ==
  IF b64 = "bQ==" THEN [ok |-> TRUE, value |-> "m"] ELSE [ok |-> FALSE, value |-> Null]

\* base64ToString of utils: the text a base64 payload encodes; it throws on a
\* payload that cannot be decoded
base64ToString(b64) == atob(b64)

\* a workflow branch that puts the envelope's payload in the block as it is
\* stored, without decoding it
workflowSummarySingleRaw(summary) ==
  IF ~IsJson(summary) THEN <<[text |-> "Ocorreu um erro ao processar o resumo do fluxo de trabalho."]>>
  ELSE LET parsed == summary[1]
       IN IF parsed.summary_base64 # Null THEN <<[text |-> parsed.summary_base64]>>
          ELSE IF parsed.summary # Null THEN <<[text |-> parsed.summary]>>
          ELSE <<[text |-> "O resumo do fluxo de trabalho estava vazio."]>>

\* getSingleSystemInstruction, workflow branch: the text put in the knowledge block
workflowSummarySingle(summary) ==
  IF ~IsJson(summary) THEN <<[text |-> "Ocorreu um erro ao processar o resumo do fluxo de trabalho."]>>
  ELSE LET parsed == summary[1]
       IN IF parsed.summary_base64 # Null
          THEN IF ~atob(parsed.summary_base64).ok
               THEN <<[text |-> "Ocorreu um erro ao processar o resumo do fluxo de trabalho."]>>
               ELSE <<[text |-> atob(parsed.summary_base64).value]>>
          ELSE IF parsed.summary # Null THEN <<[text |-> parsed.summary]>>
          ELSE <<[text |-> "O resumo do fluxo de trabalho estava vazio."]>>

\* generateCompositeSystemInstruction, workflow branch of the loop
workflowSummaryMulti(summary) ==
  IF ~IsJson(summary) THEN <<[text |-> "Erro ao processar o resumo do fluxo de trabalho."]>>
  ELSE LET parsed == summary[1]
       IN IF parsed.summary_base64 # Null
          THEN IF ~base64ToString(parsed.summary_base64).ok
               THEN <<[text |-> "Erro ao processar o resumo do fluxo de trabalho."]>>
               ELSE <<[text |-> base64ToString(parsed.summary_base64).value]>>
          ELSE IF parsed.summary # Null THEN <<[text |-> parsed.summary]>>
          ELSE <<[text |-> "Resumo do fluxo de trabalho indisponível."]>>

\* the template getSingleSystemInstruction returns for an analysis
\* a choice of template that looks at the type before the persona
singleTemplateTypeFirst(analysis) ==
  IF analysis.type = "github" THEN "github"
  ELSE IF analysis.type \in {"youtube", "video"} THEN "video"
  ELSE IF analysis.type = "workflow" THEN "workflow"
  ELSE IF analysis.persona = "analyst" THEN "analyst"
  ELSE "default"

singleTemplate(analysis) ==
  IF analysis.persona = "analyst" THEN "analyst"
  ELSE IF analysis.type = "github" THEN "github"
  ELSE IF analysis.type \in {"youtube", "video"} THEN "video"
  ELSE IF analysis.type = "workflow" THEN "workflow"
  ELSE "default"

\* a single-analysis instruction that names the source by its type
getSingleSystemInstructionByType(analysis) ==
  [template |-> singleTemplate(analysis),
   sources  |-> << [title |-> analysis.type, label |-> Null,
                    content |-> IF singleTemplate(analysis) = "workflow"
                                THEN workflowSummarySingle(analysis.summary)
                                ELSE analysis.summary] >>]

getSingleSystemInstruction(analysis) ==
  [template |-> singleTemplate(analysis),
   sources  |-> << [title |-> analysis.title, label |-> Null,
                    content |-> IF singleTemplate(analysis) = "workflow"
                                THEN workflowSummarySingle(analysis.summary)
                                ELSE analysis.summary] >>]

\* An instruction is kept as its parts: the persona prefix (Null when there is
\* none), the template, and the knowledge blocks in order; TOOL_INSTRUCTIONS is
\* appended to every instruction and is left out.
generateCompositeSystemInstruction(list, persona) ==
  LET personaPrefix == IF persona # Null /\ persona \in personaInstructions
                       THEN persona ELSE Null
      body ==
        IF Len(list) = 0
          THEN [template |-> "generic", sources |-> <<>>]
        ELSE IF Len(list) = 1
          THEN getSingleSystemInstruction(list[1])
        ELSE [template |-> "multi",
              sources  |-> [i \in 1..Len(list) |->
                             [title |-> list[i].title, label |-> list[i].type,
                              content |-> IF list[i].type = "workflow"
                                          THEN workflowSummaryMulti(list[i].summary)
                                          ELSE list[i].summary]]]
  IN [personaPrefix |-> personaPrefix, template |-> body.template, sources |-> body.sources]

\* ------------------------------------------------------------------ values
\* what the content analysis engine may return (title, summary, type, persona)
AnalysisResults ==
  { [title |-> "T", summary |-> <<[text |-> "s"]>>, type |-> "url", persona |-> "assistant"] }

\* the personas the UI offers, and "no persona"
Personas == {"tutor", Null}

\* what the user may type
Messages == { <<"h", "i">>, <<" ">> }

\* the directives, as the model is told to write them
generateDirective(digits, prompt) ==
  GenerateOpen \o digits \o <<")", ":", " ", "'">> \o prompt \o <<"'", "]">>
editDirective(prompt) == EditOpen \o <<" ", "'">> \o prompt \o <<"'", "]">>

TwoCatsPlaying ==
  <<"t","w","o"," ","c","a","t","s"," ","p","l","a","y","i","n","g">>
Cats == <<"c","a","t","s">>

\* the responses the text model may stream
RespOla       == <<"O","l","á","!"," ">> \o generateDirective(<<"2">>, TwoCatsPlaying)
RespMalformed == GenerateOpen \o <<"x", ")", ":", " ", "'">> \o Cats \o <<"'", "]">>
RespTruncated == <<"H","i"," ">> \o GenerateOpen \o <<"1", ")", ":", " ", "'">> \o Cats
RespMiddle    == <<"H","i"," ">> \o generateDirective(<<"1","0">>, Cats) \o <<" ","y","o">>
RespEditFirst == editDirective(<<"a">>) \o generateDirective(<<"1">>, <<"b">>)
RespGenFirst  == generateDirective(<<"1">>, <<"b">>) \o <<" ">> \o editDirective(<<"a">>)
RespTwoGen    == generateDirective(<<"1">>, <<"a">>) \o generateDirective(<<"3">>, <<"b">>)
RespEdit      == <<"O","k"," ">> \o editDirective(Cats)
RespPlain     == <<"o","k">>

Responses ==
  { RespOla, RespMalformed, RespTruncated, RespMiddle, RespEditFirst, RespGenFirst,
    RespTwoGen, RespEdit, RespPlain }

\* the ways a response arrives as at most n non-empty fragments
RECURSIVE Splits(_, _)
Splits(r, n) ==
  IF r = <<>> THEN { <<>> }
  ELSE IF n = 1 THEN { <<r>> }
  ELSE UNION { { <<SubSeq(r, 1, k)>> \o rest : rest \in Splits(SubSeq(r, k + 1, Len(r)), n - 1) }
               : k \in 1..Len(r) }

AllStreams == UNION { Splits(r, MaxFrags) : r \in Responses }

\* what the image models may return: batches of images, and for an edit a text
\* (maybe empty) and an image (maybe none)
ImageBatches == { <<"i1">>, <<"i1", "i2">> }
EditTexts    == { <<>>, <<"o", "k">> }
EditImages   == { "i3", Null }

\* the image URLs a chat message may offer for insertion
ImageUrls == {"u"}

\* summaries the rich-text surface may submit
Summaries == { <<[text |-> "s"]>>, <<[text |-> "e"]>> }

\* ------------------------------------------------------------------- state
VARIABLES
  state,            \* this.state: the AppState
  session,          \* this.session: the voice connection, or Null
  textChatSession,  \* this.textChatSession
  conns,            \* the voice connections requested from the provider, by id
  msgs,             \* the ChatMessage objects, by identity
  tasks,            \* the async calls in flight, each at its await
  clock,            \* how many analyses and text turns the run has created
  bus               \* this.listeners, with the subscribe calls made so far

vars == <<state, session, textChatSession, conns, msgs, tasks, clock, bus>>


\* The whole of the service as one value, so that the calls of a handler compose.
World == [state |-> state, session |-> session, textChatSession |-> textChatSession,
          conns |-> conns, msgs |-> msgs, tasks |-> tasks, clock |-> clock, bus |-> bus]

\* Identities are strings, as in the code (Date.now().toString()).
AnalysisIds == <<"a1", "a2", "a3", "a4", "a5", "a6">>
SessionIds  == <<"s1", "s2", "s3", "s4", "s5", "s6">>
ConnIds     == <<"c1", "c2", "c3", "c4", "c5", "c6">>

\* the first identity of the pool that is not in use
FreshId(pool, used) ==
  pool[CHOOSE n \in 1..Len(pool) : pool[n] \notin used /\ \A k \in 1..(n - 1) : pool[k] \in used]

\* the first number that names no message object
FreshMsg(used) == CHOOSE n \in 1..(Cardinality(used) + 1) : n \notin used

Last(s) == s[Len(s)]

\* ------------------------------------------------------- StateService, sync
\* setState: this.state = {...this.state, ...updater}
\* The listeners. bus.listeners is the array this.listeners; bus.subscriptions
\* has one entry for each subscribe call, in order: the listener it was given
\* and whether the unsubscribe function it returned has not been called yet;
\* bus.invoked is the set of listeners the last notify() invoked and bus.late
\* the set of listeners that were invoked after their unsubscribe was called;
\* bus.partial tells whether a listener has been invoked on a state whose
\* systemInstruction is not the one composed from that state.
EmptyBus == [listeners |-> <<>>, subscriptions |-> <<>>, invoked |-> {}, late |-> {},
             partial |-> FALSE]

\* a list that holds the whole store, whatever is selected
wholeStore(st) == st.analyses

\* lines 661-670 of updateSystemInstruction: the list it composes from, the
\* selected analysis only
relevantAnalyses(st) ==
  IF st.selectedAnalysisId # Null
  THEN LET found == SelectSeq(st.analyses, LAMBDA a : a.id = st.selectedAnalysisId)
       IN IF found # <<>> THEN <<found[1]>> ELSE <<>>
  ELSE <<>>

\* what a listener reads when it is invoked: whether this.state.systemInstruction
\* is the instruction of this.state.selectedAnalysisId and activePersona
instructionIsCurrent(st) ==
  st.systemInstruction =
    generateCompositeSystemInstruction(relevantAnalyses(st), st.activePersona)


\* what listeners do when they are invoked: "x" calls the unsubscribe functions
\* of the subscriptions of listener "b" that it holds; the others read the state
Listeners == {"b", "x"}

\* lines 90-95: subscribe(listener)
subscribe(w, listener) ==
  [w EXCEPT !.bus.listeners = Append(@, listener),
            !.bus.subscriptions = Append(@, [listener |-> listener, active |-> TRUE])]

\* lines 92-94: the function that the h-th subscribe call returned
unsubscribe(w, h) ==
  [w EXCEPT !.bus.listeners = SelectSeq(@, LAMBDA l : l # w.bus.subscriptions[h].listener),
            !.bus.subscriptions[h].active = FALSE]

\* the unsubscribe functions of the subscriptions of `listener`, called in order
RECURSIVE unsubscribeAllOf(_, _, _)
unsubscribeAllOf(w, listener, h) ==
  IF h > Len(w.bus.subscriptions) THEN w
  ELSE unsubscribeAllOf(IF w.bus.subscriptions[h].listener = listener
                        THEN unsubscribe(w, h) ELSE w,
                        listener, h + 1)

\* the call listener() of forEach
invoke(w, listener) ==
  LET subscribed == \E h \in 1..Len(w.bus.subscriptions) :
                      /\ w.bus.subscriptions[h].listener = listener
                      /\ w.bus.subscriptions[h].active
      w1 == [w EXCEPT !.bus.invoked = @ \cup {listener},
                      !.bus.late = IF subscribed THEN @ ELSE @ \cup {listener},
                      !.bus.partial = @ \/ ~instructionIsCurrent(w.state)]
  IN IF listener = "x" THEN unsubscribeAllOf(w1, "b", 1) ELSE w1

\* lines 97-99: notify(). forEach walks the array that this.listeners was when
\* the call began; unsubscribe puts a new array in this.listeners
RECURSIVE forEachListener(_, _, _)
forEachListener(w, array, i) ==
  IF i > Len(array) THEN w
  ELSE forEachListener(invoke(w, array[i]), array, i + 1)

notify(w) == forEachListener([w EXCEPT !.bus.invoked = {}], w.bus.listeners, 1)

\* lines 105-108
setState(w, updater) == notify([w EXCEPT !.state = updater @@ w.state])

updateSystemInstruction(w) ==
  setState(w, [systemInstruction |->
    generateCompositeSystemInstruction(relevantAnalyses(w.state), w.state.activePersona)])

\* lines 643-645
setProcessingState(w, active) == setState(w, [processingState |-> [active |-> active]])

\* lines 644-656: logEvent, for an event of a type that state.timelineEvents
\* does not keep: its setState notifies
logEvent(w) == notify(w)

\* lines 644-656: logEvent(message, 'history')
logHistoryEvent(w, message) ==
  setState(w, [timelineEvents |->
                 Append(w.state.timelineEvents, [message |-> message, type |-> "history"])])

\* a seed history that leaves out the messages that carry images
seedHistoryWithoutImages(w) ==
  LET kept == SelectSeq(w.state.chatHistory, LAMBDA m : w.msgs[m].imageUrls = <<>>)
  IN [i \in 1..Len(kept) |-> [role |-> w.msgs[kept[i]].role, text |-> w.msgs[kept[i]].text]]

\* the seed history of a new text session: the messages that have text
seedHistory(w) ==
  LET all == [i \in 1..Len(w.state.chatHistory) |->
                [role |-> w.msgs[w.state.chatHistory[i]].role,
                 text |-> w.msgs[w.state.chatHistory[i]].text]]
  IN SelectSeq(all, LAMBDA m : m.text # <<>>)

initializeTextChat(w) ==
  setState([w EXCEPT !.textChatSession =
                       [systemInstruction |-> w.state.systemInstruction,
                        history |-> seedHistory(w)]],
           [isChatting |-> FALSE])

\* a stop that also gives up the voice connection
stopRecordingClosing(w) ==
  IF ~w.state.isRecording THEN w
  ELSE [setState(w, [isRecording |-> FALSE]) EXCEPT !.session = Null]

\* lines 188-194
stopRecording(w) ==
  IF ~w.state.isRecording THEN w ELSE setState(w, [isRecording |-> FALSE])

\* lines 204-215 of resetSession(false): the code after the close of the connection
resetSessionTail(w) == initializeTextChat(updateSystemInstruction(w))

\* a selection change that carries the chat over
selectAnalysisKeepingChat(w, id) ==
  updateSystemInstruction(
    setState(w, [selectedAnalysisId |-> id, lastGeneratedImages |-> <<>>]))

\* lines 586-594 of setSelectedAnalysisId: the code before await resetSession(false)
selectAnalysis(w, id) ==
  updateSystemInstruction(
    setState(w, [selectedAnalysisId |-> id, chatHistory |-> <<>>,
                 lastGeneratedImages |-> <<>>]))

\* lines 204-215 of resetSession. With clearAnalyses the unawaited call of
\* setSelectedAnalysisId(null) runs first: the connection is gone, so its
\* resetSession(false) has no await, and its closing initializeTextChat runs in a
\* microtask after the rest of this resetSession.
afterClose(w, clearAnalyses) ==
  IF ~clearAnalyses THEN resetSessionTail(w)
  ELSE LET changed == w.state.selectedAnalysisId # Null
           w1 == IF changed
                 THEN resetSessionTail(stopRecording(selectAnalysis(w, Null)))
                 ELSE w
           w2 == resetSessionTail(setState(w1, [analyses |-> <<>>, activePersona |-> Null]))
       IN IF changed THEN initializeTextChat(w2) ELSE w2

\* what runs when await resetSession(false) returns to the method `via`:
\* setSelectedAnalysisId, setPersona, updateAnalysisSummary and
\* insertImageIntoAnalysis all go on with initializeTextChat()
\* loadSession then logs that the session was loaded, and analyzeContent
\* reaches its finally block
afterReset(w, via) ==
  IF via = Null THEN w
  ELSE IF via = "loadSession" THEN logHistoryEvent(initializeTextChat(w), "carregada")
  ELSE IF via = "analyzeContent" THEN setProcessingState(initializeTextChat(w), FALSE)
  ELSE initializeTextChat(w)

addTask(w, t) == [w EXCEPT !.tasks = @ (+) SetToBag({t})]
dropTask(w, t) == [w EXCEPT !.tasks = @ (-) SetToBag({t})]

\* session.close()
closeSession(w) ==
  [w EXCEPT !.conns[w.session] =
      [@ EXCEPT !.status = "closed", !.closes = @ + 1]]

\* resetSession(clearAnalyses); via is the method that awaits it (Null when the
\* caller is the UI). It waits for close() when there is a connection, and
\* otherwise runs to its end.
resetSession(w, clearAnalyses, via) ==
  LET w1 == stopRecording(w)
  IN IF w1.session # Null
     THEN addTask(closeSession(w1),
                  [op |-> "resetSession", pc |-> "close", clearAnalyses |-> clearAnalyses,
                   via |-> via])
     ELSE afterReset(afterClose(w1, clearAnalyses), via)

setSelectedAnalysisId(w, id) ==
  IF w.state.selectedAnalysisId = id THEN w
  ELSE resetSession(selectAnalysis(w, id), FALSE, "setSelectedAnalysisId")


setPersona(w, persona) ==
  resetSession(
    updateSystemInstruction(setState(w, [activePersona |-> persona, chatHistory |-> <<>>])),
    FALSE, "setPersona")

removeAnalysis(w, idToRemove) ==
  LET newAnalyses == SelectSeq(w.state.analyses, LAMBDA a : a.id # idToRemove)
      newSelectedId ==
        IF idToRemove = w.state.selectedAnalysisId
        THEN IF newAnalyses # <<>> THEN newAnalyses[1].id ELSE Null
        ELSE w.state.selectedAnalysisId
  IN setSelectedAnalysisId(setState(w, [analyses |-> newAnalyses]), newSelectedId)

\* analyses.findIndex((a) => a.id === id): 0 stands for -1
findIndex(analyses, id) ==
  IF \E i \in 1..Len(analyses) : analyses[i].id = id
  THEN CHOOSE i \in 1..Len(analyses) :
         analyses[i].id = id /\ \A j \in 1..(i - 1) : analyses[j].id # id
  ELSE 0

updateAnalysisSummary(w, analysisId, newSummary) ==
  LET analysisIndex == findIndex(w.state.analyses, analysisId)
  IN IF analysisIndex = 0 THEN w
     ELSE resetSession(
            updateSystemInstruction(
              setState(w, [analyses |-> [w.state.analyses EXCEPT
                                           ![analysisIndex].summary = newSummary],
                           chatHistory |-> <<>>])),
            FALSE, "updateAnalysisSummary")

\* the piece insertImageIntoAnalysis appends to the summary
markdownImage(imageUrl) == [text |-> "![Imagem Gerada pelo Assistente]", url |-> imageUrl]

insertImageIntoAnalysis(w, imageUrl) ==
  LET analysisIndex == findIndex(w.state.analyses, w.state.selectedAnalysisId)
  IN IF w.state.selectedAnalysisId = Null \/ analysisIndex = 0 THEN w
     ELSE resetSession(
            updateSystemInstruction(
              setState(w, [analyses |-> [w.state.analyses EXCEPT
                             ![analysisIndex].summary = Append(@, markdownImage(imageUrl))]])),
            FALSE, "insertImageIntoAnalysis")

saveCurrentSession(w) ==
  LET newSession == [id |-> FreshId(SessionIds, {w.state.savedSessions[i].id :
                                                   i \in 1..Len(w.state.savedSessions)}),
                     analyses |-> w.state.analyses,
                     systemInstruction |-> w.state.systemInstruction,
                     timelineEvents |-> w.state.timelineEvents,
                     activePersona |-> w.state.activePersona]
  IN logHistoryEvent(setState(w, [savedSessions |-> <<newSession>> \o w.state.savedSessions]),
                     "salva")

loadSession(w, sessionId) ==
  LET found == SelectSeq(w.state.savedSessions, LAMBDA x : x.id = sessionId)
  IN IF found = <<>> THEN w
     ELSE LET sessionToLoad == found[1]
              selectedId == IF sessionToLoad.analyses # <<>>
                            THEN sessionToLoad.analyses[1].id ELSE Null
              selected == setSelectedAnalysisId(
                            [w EXCEPT !.state.analyses = sessionToLoad.analyses,
                                      !.state.timelineEvents = sessionToLoad.timelineEvents,
                                      !.state.activePersona = sessionToLoad.activePersona],
                            selectedId)
              awaited == BagToSet(selected.tasks (-) w.tasks)
          IN IF awaited = {} THEN logHistoryEvent(selected, "carregada")
             ELSE [selected EXCEPT !.tasks =
                     (@ (-) SetToBag(awaited))
                       (+) SetToBag({[t EXCEPT !.via = "loadSession"] : t \in awaited})]

deleteSession(w, sessionId) ==
  logHistoryEvent(
    setState(w, [savedSessions |->
                   SelectSeq(w.state.savedSessions, LAMBDA x : x.id # sessionId)]),
    "excluída")

\* lines 112-137 of initSession, for a session that is null: live.connect is
\* requested with the instruction of the moment
initSession(w) ==
  LET c == FreshId(ConnIds, DOMAIN w.conns)
  IN addTask([w EXCEPT !.conns = (c :> [systemInstruction |-> w.state.systemInstruction,
                                        status |-> "pending", closes |-> 0]) @@ @],
             [op |-> "startRecording", pc |-> "connect", conn |-> c])

\* updateError and handleError: what the failure err in `context` writes to the
\* state (the error line, the emptied status) and appends to the timeline
updateError(msg) ==
  [error |-> msg, status |-> <<>>, timelineEvents |-> <<[message |-> msg, type |-> "error"]>>]

\* an error handler that sets the error line and logs nothing
handleErrorUnlogged(err, context) ==
  [error |-> <<context, ": ", err>>, status |-> <<>>, timelineEvents |-> <<>>]

handleError(err, context) == updateError(<<context, ": ", err>>)

\* lines 138-141 of initSession: live.connect has thrown, this.session was not
\* assigned; `report` is what handleError writes
connectFailed(w, t) ==
  [world  |-> [dropTask(w, t) EXCEPT !.conns[t.conn].status = "failed"],
   report |-> handleError("e", "Falha ao iniciar a sessão")]

\* lines 176-179 of startRecording: up to await this.audioService.start()
startMicrophone(w) == addTask(w, [op |-> "startRecording", pc |-> "start"])

startRecording(w) ==
  IF w.state.isRecording THEN w
  ELSE IF w.session = Null THEN initSession(w)
  ELSE startMicrophone(w)

\* the content analysis engine (ContentAnalysisManager.handleAnalysisRequest):
\* the new record is appended to the analyses it was given, and the instruction
\* is composed from all of them
handleAnalysisRequest(result, id, analyses, persona) ==
  LET newAnalysis == [id |-> id] @@ result
      newAnalyses == Append(analyses, newAnalysis)
  IN [newAnalyses |-> newAnalyses, newAnalysis |-> newAnalysis,
      newSystemInstruction |-> generateCompositeSystemInstruction(newAnalyses, persona)]

\* String.prototype.toLowerCase, on the letters the inputs are made of
toLowerCase(s) ==
  [i \in 1..Len(s) |-> CASE s[i] = "A" -> "a" [] s[i] = "B" -> "b" [] OTHER -> s[i]]

\* isValidUrl of utils/youtube-utils: a text that starts with a scheme
isValidUrl(s) == HasAt(s, 1, <<"h", "t", "t", "p", ":", "/", "/">>)

\* what analyzeContent is asked for: a URL, a file, or a search topic
Details ==
  [urlOrTopic : { <<"h", "t", "t", "p", ":", "/", "/", "a">>, <<"a">>, <<" ", "A", " ">>,
                  <<"b">>, <<" ">> },
   file : {Null, "file"}]

UrlDetail == [urlOrTopic |-> <<"h", "t", "t", "p", ":", "/", "/", "a">>, file |-> Null]

SearchIds == <<"h1", "h2", "h3", "h4", "h5">>

\* a search history that takes every topic
rememberSearchAlways(w, detail) ==
  IF detail.file = Null /\ Trim(detail.urlOrTopic) # <<>> /\ ~isValidUrl(Trim(detail.urlOrTopic))
  THEN [w EXCEPT !.state.searchHistory =
          <<[id |-> FreshId(SearchIds, {@[i].id : i \in 1..Len(@)}),
             term |-> Trim(detail.urlOrTopic)]>> \o @]
  ELSE w

\* lines 453-467 of analyzeContent: the topic is put in the search history
rememberSearch(w, detail) ==
  IF detail.file = Null /\ Trim(detail.urlOrTopic) # <<>> /\ ~isValidUrl(Trim(detail.urlOrTopic))
  THEN LET searchTerm == Trim(detail.urlOrTopic)
           history == w.state.searchHistory
       IN IF ~\E i \in 1..Len(history) :
                 toLowerCase(history[i].term) = toLowerCase(searchTerm)
          THEN [w EXCEPT !.state.searchHistory =
                  <<[id |-> FreshId(SearchIds, {history[i].id : i \in 1..Len(history)}),
                     term |-> searchTerm]>> \o history]
          ELSE w
  ELSE w

\* lines 763-770
deleteSearchHistoryItem(w, searchId) ==
  logHistoryEvent(
    setState(w, [searchHistory |->
                   SelectSeq(w.state.searchHistory, LAMBDA x : x.id # searchId)]),
    "Pesquisa excluída")

\* lines 453-481 of analyzeContent: up to the await of the analysis
analyzeContent(w, detail) ==
  addTask(rememberSearch(w, detail),
          [op |-> "analyzeContent", pc |-> "handleAnalysisRequest",
           analyses |-> w.state.analyses, activePersona |-> w.state.activePersona])

\* lines 483-493 of analyzeContent: the analysis has returned r
\* and, when setSelectedAnalysisId has not to wait for a close, the finally block
analysisDone(w, r) ==
  LET selected == setSelectedAnalysisId(
                    setState(w, [analyses |-> r.newAnalyses,
                                 systemInstruction |-> r.newSystemInstruction]),
                    r.newAnalysis.id)
      awaited == BagToSet(selected.tasks (-) w.tasks)
  IN IF awaited = {} THEN setProcessingState(selected, FALSE)
     ELSE [selected EXCEPT !.tasks =
             (@ (-) SetToBag(awaited))
               (+) SetToBag({[t EXCEPT !.via = "analyzeContent"] : t \in awaited})]

\* a failure that is reported and leaves the processing state as it is
analysisFailedStillProcessing(w, t) ==
  [world  |-> [dropTask(w, t) EXCEPT !.clock.failed = @ + 1],
   report |-> handleError("e", "Falha na análise")]

\* lines 494-498 of analyzeContent: handleAnalysisRequest has thrown; the catch
\* block reports the error (`report` is what handleError writes) and the
\* finally block ends the processing state
analysisFailed(w, t) ==
  [world  |-> setProcessingState([dropTask(w, t) EXCEPT !.clock.failed = @ + 1], FALSE),
   report |-> handleError("e", "Falha na análise")]

\* ------------------------------------------------------------ the text chat
\* the last message of the chat history (0 when it is empty)
lastMessageOf(w) ==
  IF w.state.chatHistory = <<>> THEN 0 ELSE Last(w.state.chatHistory)

hasModelMessage(w) ==
  lastMessageOf(w) # 0 /\ w.msgs[lastMessageOf(w)].role = "model"

newMessage(role, text) ==
  [role |-> role, text |-> text, isLoadingImages |-> FALSE, imageCount |-> 0,
   imageUrls |-> <<>>]

\* pushes a new message object on the chat history
pushMessage(w, role, text) ==
  LET m == FreshMsg(DOMAIN w.msgs)
  IN setState([w EXCEPT !.msgs = (m :> newMessage(role, text)) @@ @],
              [chatHistory |-> Append(w.state.chatHistory, m)])

\* the suffixes the code appends to the text of a message, each kept as one piece
ErrNoImageToEdit == "\n\n**Erro:** Não há nenhuma imagem recente para editar."
ErrNoEditedImage == "\n\n**Erro:** A edição não retornou uma nova imagem."
ErrGenerate      == "\n\n**Erro ao gerar imagem:** "
ErrEdit          == "\n\n**Erro ao editar imagem:** "
ErrChat          == "\n\n**Desculpe, ocorreu um erro:** "
EditedFallback   == "Aqui está a imagem editada."

\* lines 240-256 of _triggerImageGeneration: up to the await of generateImages
triggerImageGeneration(w, prompt, count) ==
  IF ~hasModelMessage(w) THEN w
  ELSE LET m == lastMessageOf(w)
       IN addTask([w EXCEPT !.msgs[m].isLoadingImages = TRUE, !.msgs[m].imageCount = count],
                  [op |-> "_triggerImageGeneration", pc |-> "generateImages",
                   lastMessage |-> m, prompt |-> prompt, count |-> count])

\* lines 282-314 of _triggerImageEditing: up to the await of generateContent
triggerImageEditing(w, prompt) ==
  IF ~hasModelMessage(w) THEN w
  ELSE LET m == lastMessageOf(w)
       IN IF w.state.lastGeneratedImages = <<>>
          THEN [w EXCEPT !.msgs[m].text = Append(@, ErrNoImageToEdit)]
          ELSE addTask([w EXCEPT !.msgs[m].isLoadingImages = TRUE, !.msgs[m].imageCount = 1],
                       [op |-> "_triggerImageEditing", pc |-> "generateContent",
                        lastMessage |-> m, prompt |-> prompt,
                        imageToEdit |-> w.state.lastGeneratedImages[1]])

\* lines 382-401 of sendTextMessage: the scan of the accumulated text. Gives the
\* text to display and the command to dispatch (Null when there is none).
NoCommand == [kind |-> Null]

\* a scan that takes the opening of a generate directive for a directive
scanBufferEager(accumulatedText) ==
  LET genMatch  == generateRegex(accumulatedText)
      editMatch == editRegex(accumulatedText)
  IN IF genMatch.found
       THEN [text |-> Trim(RemoveMatch(accumulatedText, genMatch)), commandProcessed |-> TRUE,
             command |-> [kind |-> "generate", count |-> genMatch.count,
                          prompt |-> genMatch.prompt]]
     ELSE IF \E i \in 1..Len(accumulatedText) : HasAt(accumulatedText, i, GenerateOpen)
       THEN [text |-> accumulatedText, commandProcessed |-> TRUE,
             command |-> [kind |-> "generate", count |-> 1, prompt |-> <<>>]]
     ELSE IF editMatch.found
       THEN [text |-> Trim(RemoveMatch(accumulatedText, editMatch)), commandProcessed |-> TRUE,
             command |-> [kind |-> "edit", prompt |-> editMatch.prompt]]
     ELSE [text |-> accumulatedText, commandProcessed |-> FALSE, command |-> NoCommand]

\* lines 384-400: the body of if (!commandProcessed). The generate pattern is
\* tried first, and the edit pattern only when it has no match.
scanBuffer(accumulatedText) ==
  LET genMatch  == generateRegex(accumulatedText)
      editMatch == editRegex(accumulatedText)
  IN IF genMatch.found
       THEN [text |-> Trim(RemoveMatch(accumulatedText, genMatch)), commandProcessed |-> TRUE,
             command |-> [kind |-> "generate", count |-> genMatch.count,
                          prompt |-> genMatch.prompt]]
     ELSE IF editMatch.found
       THEN [text |-> Trim(RemoveMatch(accumulatedText, editMatch)), commandProcessed |-> TRUE,
             command |-> [kind |-> "edit", prompt |-> editMatch.prompt]]
     ELSE [text |-> accumulatedText, commandProcessed |-> FALSE, command |-> NoCommand]

\* a scan that does not remember that the turn has dispatched its command
scanCommandEveryTime(accumulatedText, commandProcessed) == scanBuffer(accumulatedText)

scanCommand(accumulatedText, commandProcessed) ==
  IF commandProcessed
  THEN [text |-> accumulatedText, commandProcessed |-> TRUE, command |-> NoCommand]
  ELSE scanBuffer(accumulatedText)

dispatchCommand(w, command) ==
  IF command.kind = "generate" THEN triggerImageGeneration(w, command.prompt, command.count)
  ELSE IF command.kind = "edit" THEN triggerImageEditing(w, command.prompt)
  ELSE w

\* lines 355-363 of sendTextMessage, for a message that is accepted
sendTextMessage(w, message) ==
  addTask(
    setState([pushMessage(w, "user", message) EXCEPT !.clock.turns = @ + 1],
             [isChatting |-> TRUE]),
    [op |-> "sendTextMessage", pc |-> "sendMessageStream", turn |-> w.clock.turns + 1,
     chat |-> w.textChatSession])

\* lines 365-375: the stream is there; the assistant message of the turn is pushed
streamOpened(w, t, stream) ==
  LET w1 == pushMessage(dropTask(w, t), "model", <<>>)
  IN addTask(w1, [op |-> "sendTextMessage", pc |-> "stream", turn |-> t.turn,
                  chat |-> t.chat, modelMessage |-> lastMessageOf(w1), stream |-> stream,
                  accumulatedText |-> <<>>, commandProcessed |-> FALSE,
                  dispatched |-> <<>>, response |-> <<>>])

\* lines 377-409: one fragment of the stream (the body of the for await loop)
streamChunk(w, t) ==
  LET chunkText == Head(t.stream)
      scan == scanCommand(t.accumulatedText \o chunkText, t.commandProcessed)
      w1 == dispatchCommand(dropTask(w, t), scan.command)
      w2 == IF hasModelMessage(w1)
            THEN [w1 EXCEPT !.msgs[lastMessageOf(w1)].text = scan.text]
            ELSE w1
  IN addTask(w2, [t EXCEPT !.stream = Tail(@), !.accumulatedText = scan.text,
                           !.commandProcessed = scan.commandProcessed,
                           !.dispatched = IF scan.command.kind # Null
                                          THEN Append(@, [command |-> scan.command,
                                                          buffer |-> t.accumulatedText \o chunkText])
                                          ELSE @,
                           !.response = @ \o chunkText])

\* a stream end that keeps the turn open while an image job is pending
streamEndedAwaitingJob(w, t) ==
  IF \E u \in BagToSet(w.tasks) : u.pc \in {"generateImages", "generateContent"}
  THEN dropTask(w, t)
  ELSE setState(dropTask(w, t), [isChatting |-> FALSE])

\* lines 425-428: the stream has ended
streamEnded(w, t) == setState(dropTask(w, t), [isChatting |-> FALSE])

\* lines 429-441: the catch block of sendTextMessage
chatFailed(w, t) ==
  LET w1 == dropTask(w, t)
  IN IF hasModelMessage(w1)
     THEN setState([w1 EXCEPT !.msgs[lastMessageOf(w1)].text = Append(@, ErrChat)],
                   [isChatting |-> FALSE])
     ELSE w1

\* `data:${mimeType};base64,${b64}`
dataUrl(mimeType, b64) == <<"data:", mimeType, ";base64,", b64>>

\* a completion that adds the new batch to the batch that was kept
imagesGeneratedMerging(w, t, images) ==
  setState([dropTask(w, t) EXCEPT !.msgs[t.lastMessage].isLoadingImages = FALSE,
                                  !.msgs[t.lastMessage].imageUrls =
                                     [i \in 1..Len(images) |-> dataUrl("image/png", images[i])]],
           [lastGeneratedImages |-> w.state.lastGeneratedImages \o images])

\* lines 258-271 of _triggerImageGeneration: generateImages has returned the
\* payloads images
imagesGenerated(w, t, images) ==
  setState([dropTask(w, t) EXCEPT !.msgs[t.lastMessage].isLoadingImages = FALSE,
                                  !.msgs[t.lastMessage].imageUrls =
                                     [i \in 1..Len(images) |-> dataUrl("image/png", images[i])]],
           [lastGeneratedImages |-> images])

\* lines 272-279: generateImages has failed
imageGenerationFailed(w, t) ==
  [dropTask(w, t) EXCEPT !.msgs[t.lastMessage].isLoadingImages = FALSE,
                         !.msgs[t.lastMessage].text = Append(@, ErrGenerate)]

\* an edit that keeps the batch it edited and adds its result to it
imageEditedKeeping(w, t, newText, newImage) ==
  LET m == t.lastMessage
      text == IF newText # <<>> THEN newText ELSE <<EditedFallback>>
      w1 == [dropTask(w, t) EXCEPT !.msgs[m].isLoadingImages = FALSE, !.msgs[m].text = text]
  IN IF newImage # Null
     THEN setState([w1 EXCEPT !.msgs[m].imageUrls = <<dataUrl("image/png", newImage)>>],
                   [lastGeneratedImages |-> Append(w.state.lastGeneratedImages, newImage)])
     ELSE [w1 EXCEPT !.msgs[m].text = Append(@, ErrNoEditedImage)]

\* lines 316-339 of _triggerImageEditing: generateContent has returned the text
\* newText (maybe empty) and the payload newImage of a png image (maybe Null)
imageEdited(w, t, newText, newImage) ==
  LET m == t.lastMessage
      text == IF newText # <<>> THEN newText ELSE <<EditedFallback>>
      w1 == [dropTask(w, t) EXCEPT !.msgs[m].isLoadingImages = FALSE, !.msgs[m].text = text]
  IN IF newImage # Null
     THEN setState([w1 EXCEPT !.msgs[m].imageUrls = <<dataUrl("image/png", newImage)>>],
                   [lastGeneratedImages |-> <<newImage>>])
     ELSE [w1 EXCEPT !.msgs[m].text = Append(@, ErrNoEditedImage)]

\* lines 340-347: generateContent has failed
imageEditingFailed(w, t) ==
  [dropTask(w, t) EXCEPT !.msgs[t.lastMessage].isLoadingImages = FALSE,
                         !.msgs[t.lastMessage].text = Append(@, ErrEdit)]

\* -------------------------------------------------------------- transitions
\* the message objects and the connections something still refers to
liveMsgs(w) ==
  {w.state.chatHistory[i] : i \in 1..Len(w.state.chatHistory)}
    \cup {t.lastMessage : t \in {u \in BagToSet(w.tasks) : "lastMessage" \in DOMAIN u}}
    \cup {t.modelMessage : t \in {u \in BagToSet(w.tasks) : "modelMessage" \in DOMAIN u}}

liveConns(w) ==
  {c \in DOMAIN w.conns : c = w.session \/ w.conns[c].status \in {"pending", "open"}}

\* The next state is w, without the objects nothing refers to any more.
\* the calls in flight that the UI started (an image job is started by a turn)
uiTasks(w) ==
  [t \in {u \in BagToSet(w.tasks) : "lastMessage" \notin DOMAIN u} |-> w.tasks[t]]

Commit(w) ==
  /\ BagCardinality(uiTasks(w)) <= MaxTasks
  /\ Cardinality(liveConns(w)) <= MaxConns
  /\ state' = w.state
  /\ session' = w.session
  /\ textChatSession' = w.textChatSession
  /\ conns' = [c \in liveConns(w) |-> w.conns[c]]
  /\ msgs' = [m \in liveMsgs(w) |-> w.msgs[m]]
  /\ tasks' = w.tasks
  /\ clock' = w.clock
  /\ bus' = w.bus

\* the state the constructor leaves, when the run has taken `turns` text turns
InitAt(turns) ==
  /\ state = [analyses |-> <<>>, selectedAnalysisId |-> Null, isRecording |-> FALSE,
              systemInstruction |-> generateCompositeSystemInstruction(<<>>, Null),
              savedSessions |-> <<>>, activePersona |-> Null, chatHistory |-> <<>>,
              timelineEvents |-> <<>>, processingState |-> [active |-> FALSE],
              searchHistory |-> <<>>,
              isChatting |-> FALSE, lastGeneratedImages |-> <<>>]
  /\ session = Null
  /\ textChatSession = [systemInstruction |-> generateCompositeSystemInstruction(<<>>, Null),
                        history |-> <<>>]
  /\ conns = [c \in {} |-> Null]
  /\ msgs = <<>>
  /\ tasks = EmptyBag
  /\ clock = [analyses |-> 0, failed |-> 0, turns |-> turns]
  /\ bus = EmptyBus

Init == InitAt(0)

\* the ids of the knowledge store
storeIds == {state.analyses[i].id : i \in 1..Len(state.analyses)}

\* the sidebar selects an analysis of the store, or none
CallSetSelectedAnalysisId ==
  \E id \in storeIds \cup {Null} :
    /\ state.selectedAnalysisId # id
    /\ Commit(setSelectedAnalysisId(World, id))

\* setSelectedAnalysisId is public: a caller may pass an id the store does not hold
CallSetSelectedAnalysisIdAny ==
  \E id \in {AnalysisIds[n] : n \in 1..(MaxAnalyses + 1)} \cup {Null} :
    /\ state.selectedAnalysisId # id
    /\ Commit(setSelectedAnalysisId(World, id))

CallSubscribe ==
  \E listener \in Listeners :
    /\ Len(bus.subscriptions) < MaxSubs
    /\ Commit(subscribe(World, listener))

\* a caller uses an unsubscribe function it holds
CallUnsubscribe ==
  \E h \in 1..Len(bus.subscriptions) :
    /\ bus.subscriptions[h].active
    /\ Commit(unsubscribe(World, h))

CallSetPersona ==
  \E persona \in Personas :
    /\ Commit(setPersona(World, persona))

CallRemoveAnalysis ==
  \E i \in 1..Len(state.analyses) :
    /\ Commit(removeAnalysis(World, state.analyses[i].id))

CallResetSession ==
  \E clearAnalyses \in BOOLEAN :
    /\ Commit(resetSession(World, clearAnalyses, Null))

\* the close of the voice connection that a resetSession awaits has completed
ResumeClose ==
  \E t \in BagToSet(tasks) :
    /\ t.pc = "close"
    /\ Commit(afterReset(afterClose([dropTask(World, t) EXCEPT !.session = Null],
                                    t.clearAnalyses),
                         t.via))

CallUpdateAnalysisSummary ==
  \E i \in 1..Len(state.analyses), newSummary \in Summaries :
    /\ state.analyses[i].summary # newSummary
    /\ Commit(updateAnalysisSummary(World, state.analyses[i].id, newSummary))

CallInsertImageIntoAnalysis ==
  \E imageUrl \in ImageUrls :
    /\ state.selectedAnalysisId # Null
    /\ \E i \in 1..Len(state.analyses) :
         /\ state.analyses[i].id = state.selectedAnalysisId
         /\ Len(state.analyses[i].summary) < MaxSummary
    /\ Commit(insertImageIntoAnalysis(World, imageUrl))

CallSaveCurrentSession ==
  /\ Len(state.savedSessions) < MaxSaved
  /\ Len(state.timelineEvents) < MaxEvents
  /\ Commit(saveCurrentSession(World))

CallLoadSession ==
  \E i \in 1..Len(state.savedSessions) :
    /\ Len(state.timelineEvents) < MaxEvents
    /\ Commit(loadSession(World, state.savedSessions[i].id))

CallDeleteSession ==
  \E i \in 1..Len(state.savedSessions) :
    /\ Len(state.timelineEvents) < MaxEvents
    /\ Commit(deleteSession(World, state.savedSessions[i].id))

CallAnalyzeContent ==
  /\ clock.failed + clock.analyses + Cardinality({t \in BagToSet(tasks) : t.op = "analyzeContent"
                                                           /\ t.pc = "handleAnalysisRequest"})
       < MaxAnalyses
  /\ Commit(analyzeContent(World, UrlDetail))

\* analyzeContent with a file, a URL or a search topic
CallAnalyzeContentOf ==
  \E detail \in Details :
    /\ clock.failed + clock.analyses
         + Cardinality({t \in BagToSet(tasks) : t.pc = "handleAnalysisRequest"}) < MaxAnalyses
    /\ Len(state.searchHistory) < MaxHistory
    /\ Commit(analyzeContent(World, detail))

CallDeleteSearchHistoryItem ==
  \E i \in 1..Len(state.searchHistory) :
    /\ Len(state.timelineEvents) < MaxEvents
    /\ Commit(deleteSearchHistoryItem(World, state.searchHistory[i].id))

\* the first analysis of the run, asked for when nothing else is in flight
CallFirstAnalyzeContent ==
  /\ clock.analyses = 0
  /\ tasks = EmptyBag
  /\ Commit(analyzeContent(World, UrlDetail))

\* the content analysis has returned a result
ResumeAnalysis ==
  \E t \in BagToSet(tasks), result \in AnalysisResults :
    /\ t.pc = "handleAnalysisRequest"
    /\ LET r == handleAnalysisRequest(result, AnalysisIds[clock.analyses + 1],
                                      t.analyses, t.activePersona)
           w == [dropTask(World, t) EXCEPT !.clock.analyses = @ + 1]
       IN Commit(analysisDone(w, r))

\* the content analysis engine calls the setProcessingState callback it was
\* given (line 478) while it works
AnalysisProgress ==
  \E t \in BagToSet(tasks) :
    /\ t.pc = "handleAnalysisRequest"
    /\ ~state.processingState.active
    /\ Commit(setProcessingState(World, TRUE))

\* the content analysis has failed
FailAnalysis ==
  \E t \in BagToSet(tasks) :
    /\ t.pc = "handleAnalysisRequest"
    /\ Commit(analysisFailed(World, t).world)

CallStartRecording ==
  /\ ~state.isRecording
  /\ Commit(startRecording(World))

CallStopRecording ==
  /\ state.isRecording
  /\ Commit(stopRecording(World))

\* live.connect has returned the connection: this.session is set, and
\* startRecording goes on to the microphone
ResumeConnect ==
  \E t \in BagToSet(tasks) :
    /\ t.pc = "connect"
    /\ Commit(startMicrophone(
                [dropTask(World, t) EXCEPT !.session = t.conn,
                                           !.conns[t.conn].status = "open"]))

\* live.connect has failed: handleError; startRecording goes on all the same
FailConnect ==
  \E t \in BagToSet(tasks) :
    /\ t.pc = "connect"
    /\ Commit(startMicrophone(connectFailed(World, t).world))

\* audioService.start() has returned
ResumeStart ==
  \E t \in BagToSet(tasks) :
    /\ t.pc = "start"
    /\ Commit(setState(dropTask(World, t), [isRecording |-> TRUE]))

\* audioService.start() has failed: handleError, then stopRecording()
FailStart ==
  \E t \in BagToSet(tasks) :
    /\ t.pc = "start"
    /\ Commit(stopRecording(dropTask(World, t)))

CallSendTextMessage ==
  \E message \in Messages :
    /\ ~state.isChatting
    /\ Trim(message) # <<>>
    /\ clock.turns < MaxTurns
    /\ Commit(sendTextMessage(World, message))

\* sendMessageStream has returned a stream, one of streams
ResumeSendMessageStream(streams) ==
  \E t \in BagToSet(tasks), stream \in streams :
    /\ t.pc = "sendMessageStream"
    /\ Commit(streamOpened(World, t, stream))

\* sendMessageStream has failed
FailSendMessageStream ==
  \E t \in BagToSet(tasks) :
    /\ t.pc = "sendMessageStream"
    /\ Commit(chatFailed(World, t))

\* the stream delivers its next fragment
StreamChunk ==
  \E t \in BagToSet(tasks) :
    /\ t.pc = "stream"
    /\ t.stream # <<>>
    /\ Commit(streamChunk(World, t))

\* the stream is exhausted
StreamEnd ==
  \E t \in BagToSet(tasks) :
    /\ t.pc = "stream"
    /\ t.stream = <<>>
    /\ Commit(streamEnded(World, t))

\* the stream fails
StreamFail ==
  \E t \in BagToSet(tasks) :
    /\ t.pc = "stream"
    /\ Commit(chatFailed(World, t))

ResumeGenerateImages ==
  \E t \in BagToSet(tasks), images \in ImageBatches :
    /\ t.pc = "generateImages"
    /\ Commit(imagesGenerated(World, t, images))

FailGenerateImages ==
  \E t \in BagToSet(tasks) :
    /\ t.pc = "generateImages"
    /\ Commit(imageGenerationFailed(World, t))

ResumeGenerateContent ==
  \E t \in BagToSet(tasks), newText \in EditTexts, newImage \in EditImages :
    /\ t.pc = "generateContent"
    /\ Commit(imageEdited(World, t, newText, newImage))

FailGenerateContent ==
  \E t \in BagToSet(tasks) :
    /\ t.pc = "generateContent"
    /\ Commit(imageEditingFailed(World, t))

\* ------------------------------------------------------------ specifications
\* the state the constructor leaves, with one text turn left to take
InitTurn == InitAt(MaxTurns - 1)

\* the state the constructor leaves, with two text turns left to take
InitTwoTurns == InitAt(MaxTurns - 2)

\* a plain answer, whole or in fragments
PlainStreams == Splits(RespPlain, MaxFrags)

\* The knowledge store, the selection and the persona, with a voice connection
\* whose close the context changes await.
Next ==
  \/ CallAnalyzeContent
  \/ ResumeAnalysis
  \/ CallRemoveAnalysis
  \/ CallSetSelectedAnalysisId
  \/ CallSetPersona
  \/ CallStartRecording
  \/ ResumeConnect
  \/ ResumeStart
  \/ ResumeClose

Spec == Init /\ [][Next]_vars

\* The knowledge store under every call of its public methods, with one text
\* turn to fill the chat.
NextStore ==
  \/ CallAnalyzeContent
  \/ ResumeAnalysis
  \/ CallRemoveAnalysis
  \/ CallSetSelectedAnalysisIdAny
  \/ CallResetSession
  \/ CallSaveCurrentSession
  \/ CallLoadSession
  \/ CallSendTextMessage
  \/ ResumeSendMessageStream(PlainStreams)
  \/ StreamChunk
  \/ StreamEnd

SpecStore == InitTurn /\ [][NextStore]_vars

\* Removals, selections and resets on a store that analyses fill, with one text
\* turn to fill the chat.
NextRemove ==
  \/ CallAnalyzeContent
  \/ ResumeAnalysis
  \/ CallRemoveAnalysis
  \/ CallSetSelectedAnalysisIdAny
  \/ CallResetSession
  \/ CallSendTextMessage
  \/ ResumeSendMessageStream(PlainStreams)
  \/ StreamChunk
  \/ StreamEnd

SpecRemove == InitTurn /\ [][NextRemove]_vars

\* The voice connection: recording, context changes and resets.
NextVoice ==
  \/ CallStartRecording
  \/ CallStopRecording
  \/ ResumeConnect
  \/ FailConnect
  \/ ResumeStart
  \/ FailStart
  \/ CallSetPersona
  \/ CallResetSession
  \/ ResumeClose

SpecVoice == Init /\ [][NextVoice]_vars

\* Text turns, with persona changes and resets that rebuild the text session.
NextChat ==
  \/ CallSendTextMessage
  \/ ResumeSendMessageStream(PlainStreams)
  \/ StreamChunk
  \/ StreamEnd
  \/ CallSetPersona
  \/ CallResetSession

SpecChat == InitTwoTurns /\ [][NextChat]_vars

\* Text turns and persona changes while a voice connection is there to close.
NextText ==
  \/ CallSendTextMessage
  \/ ResumeSendMessageStream(PlainStreams)
  \/ StreamChunk
  \/ StreamEnd
  \/ CallSetPersona
  \/ CallStartRecording
  \/ ResumeConnect
  \/ ResumeStart
  \/ ResumeClose

SpecText == InitTwoTurns /\ [][NextText]_vars

\* One text turn, its response split in every way.
NextTurn ==
  \/ CallSendTextMessage
  \/ ResumeSendMessageStream(AllStreams)
  \/ StreamChunk
  \/ StreamEnd

SpecTurn == InitTurn /\ [][NextTurn]_vars

\* the answers of the turns that ask for images: an edit, a generation whose
\* directive is followed by a later fragment, and a plain answer
ImageStreams ==
  { <<RespEdit>>,
    << <<"H","i"," ">> \o generateDirective(<<"1","0">>, Cats), <<" ","y","o">> >>,
    <<RespPlain>> }

\* Text turns whose directives start image jobs, and the image models answering
\* or failing.
NextImages ==
  \/ CallSendTextMessage
  \/ ResumeSendMessageStream(ImageStreams)
  \/ StreamChunk
  \/ StreamEnd
  \/ ResumeGenerateImages
  \/ FailGenerateImages
  \/ ResumeGenerateContent
  \/ FailGenerateContent

SpecImages == Init /\ [][NextImages]_vars

\* Saved sessions: a store that analyses fill, personas, the voice connection,
\* and the save and the load of a session.
NextSessions ==
  \/ CallAnalyzeContent
  \/ ResumeAnalysis
  \/ CallSetPersona
  \/ CallSaveCurrentSession
  \/ CallLoadSession
  \/ CallStartRecording
  \/ ResumeConnect
  \/ ResumeStart
  \/ ResumeClose

SpecSessions == Init /\ [][NextSessions]_vars

\* Every operation that changes the context of the conversation, on a store
\* that analyses fill, with the save and the load of a session.
NextContext ==
  \/ CallAnalyzeContent
  \/ ResumeAnalysis
  \/ CallRemoveAnalysis
  \/ CallUpdateAnalysisSummary
  \/ CallInsertImageIntoAnalysis
  \/ CallSetSelectedAnalysisId
  \/ CallSetPersona
  \/ CallResetSession
  \/ CallSaveCurrentSession
  \/ CallLoadSession

SpecContext == Init /\ [][NextContext]_vars

\* The voice connection under every change of context: recordings start while
\* selections, personas, summaries and inserted images change.
NextAudio ==
  \/ CallFirstAnalyzeContent
  \/ ResumeAnalysis
  \/ CallSetSelectedAnalysisId
  \/ CallSetPersona
  \/ CallUpdateAnalysisSummary
  \/ CallInsertImageIntoAnalysis
  \/ CallStartRecording
  \/ ResumeConnect
  \/ ResumeStart
  \/ ResumeClose

SpecAudio == Init /\ [][NextAudio]_vars

\* The composer on its own: every list of analyses of every type, persona and
\* kind of summary, and every persona, with one call of the composer to make.
ComposeTitles == {"T", "U"}

ComposeEnvelopes ==
  { <<[text |-> "s"]>>,
    <<[summary_base64 |-> "bQ==", summary |-> Null]>>,
    <<[summary_base64 |-> "invalid", summary |-> Null]>>,
    <<[summary_base64 |-> Null, summary |-> "t"]>>,
    <<[summary_base64 |-> Null, summary |-> Null]>> }

ComposeAnalyses ==
  [title : ComposeTitles, summary : {<<[text |-> "s"]>>},
   type : {"url", "github", "youtube", "video"},
   persona : {"assistant", "analyst"}]
  \cup [title : ComposeTitles, summary : ComposeEnvelopes, type : {"workflow"},
        persona : {"assistant", "analyst"}]

ComposeLists ==
  UNION { [1..n -> ComposeAnalyses] : n \in 0..MaxAnalyses }

InitCompose ==
  \E list \in ComposeLists, persona \in Personas :
    /\ state = [analyses |-> [i \in 1..Len(list) |-> [id |-> AnalysisIds[i]] @@ list[i]],
                selectedAnalysisId |-> Null, isRecording |-> FALSE,
                systemInstruction |-> generateCompositeSystemInstruction(<<>>, Null),
                savedSessions |-> <<>>, activePersona |-> persona, chatHistory |-> <<>>,
                timelineEvents |-> <<>>, processingState |-> [active |-> FALSE],
              searchHistory |-> <<>>,
                isChatting |-> FALSE, lastGeneratedImages |-> <<>>]
    /\ session = Null
    /\ textChatSession = [systemInstruction |-> generateCompositeSystemInstruction(<<>>, Null),
                          history |-> <<>>]
    /\ conns = [c \in {} |-> Null]
    /\ msgs = <<>>
    /\ tasks = SetToBag({[op |-> "generateCompositeSystemInstruction", pc |-> "call"]})
    /\ clock = [analyses |-> Len(list), failed |-> 0, turns |-> 0]
    /\ bus = EmptyBus

\* the call of the composer with the analyses and the persona of the state
CallGenerateCompositeSystemInstruction ==
  \E t \in BagToSet(tasks) :
    /\ t.op = "generateCompositeSystemInstruction"
    /\ Commit(setState(dropTask(World, t),
                       [systemInstruction |->
                          generateCompositeSystemInstruction(state.analyses, state.activePersona)]))

SpecCompose == InitCompose /\ [][CallGenerateCompositeSystemInstruction]_vars

\* Listeners that come and go while personas change and a session is saved and
\* loaded.
NextListeners ==
  \/ CallSubscribe
  \/ CallUnsubscribe
  \/ CallSetPersona
  \/ CallSaveCurrentSession
  \/ CallLoadSession

SpecListeners == Init /\ [][NextListeners]_vars

\* Image jobs under selection changes: text turns over ImageStreams whose jobs
\* return, while the selection changes.
NextSelectImages ==
  \/ CallSendTextMessage
  \/ ResumeSendMessageStream(ImageStreams)
  \/ StreamChunk
  \/ StreamEnd
  \/ ResumeGenerateImages
  \/ ResumeGenerateContent
  \/ CallSetSelectedAnalysisIdAny

SpecSelectImages == InitTwoTurns /\ [][NextSelectImages]_vars

\* Text turns that ask for images, and resets from the UI, which rebuild the
\* text session over the chat history as it is.
NextReseed ==
  \/ CallSendTextMessage
  \/ ResumeSendMessageStream(ImageStreams)
  \/ StreamChunk
  \/ StreamEnd
  \/ ResumeGenerateImages
  \/ ResumeGenerateContent
  \/ CallResetSession

SpecReseed == InitTwoTurns /\ [][NextReseed]_vars

\* Recording started and stopped by the user while text turns go on.
NextStop ==
  \/ CallStartRecording
  \/ ResumeConnect
  \/ ResumeStart
  \/ CallStopRecording
  \/ CallSendTextMessage
  \/ ResumeSendMessageStream(PlainStreams)
  \/ StreamChunk
  \/ StreamEnd

SpecStop == InitTwoTurns /\ [][NextStop]_vars

\* Content analyses that succeed or fail, with the progress the engine
\* reports, a voice connection whose close the new selection awaits, and a
\* text turn.
NextAnalysis ==
  \/ CallAnalyzeContent
  \/ AnalysisProgress
  \/ ResumeAnalysis
  \/ FailAnalysis
  \/ CallStartRecording
  \/ ResumeConnect
  \/ ResumeStart
  \/ ResumeClose
  \/ CallSendTextMessage
  \/ ResumeSendMessageStream({<<RespPlain>>})
  \/ StreamChunk
  \/ StreamEnd

SpecAnalysis == InitTurn /\ [][NextAnalysis]_vars

\* Content analyses asked for by topic, by URL and by file, and deletions from
\* the search history.
NextSearch ==
  \/ CallAnalyzeContentOf
  \/ ResumeAnalysis
  \/ FailAnalysis
  \/ CallDeleteSearchHistoryItem

SpecSearch == Init /\ [][NextSearch]_vars

\* Text turns whose request or stream can fail. Every call that is pending at
\* the provider returns or fails in the end; the user is free not to act.
NextTurnsLive ==
  \/ CallSendTextMessage
  \/ ResumeSendMessageStream(PlainStreams)
  \/ FailSendMessageStream
  \/ StreamChunk
  \/ StreamEnd
  \/ StreamFail

SpecTurnsLive ==
  /\ Init
  /\ [][NextTurnsLive]_vars
  /\ WF_vars(ResumeSendMessageStream(PlainStreams) \/ FailSendMessageStream)
  /\ WF_vars(StreamChunk \/ StreamEnd \/ StreamFail)

\* ------------------------------------------------------------------ properties
\* the list that holds only the selected analysis of the store, and nothing
\* when nothing is selected
SelectedOnly ==
  IF state.selectedAnalysisId = Null THEN <<>>
  ELSE SelectSeq(state.analyses, LAMBDA a : a.id = state.selectedAnalysisId)

\* the instruction composed for the selection and the persona of the state
ComposedNow == generateCompositeSystemInstruction(SelectedOnly, state.activePersona)

\* a setSelectedAnalysisId or setPersona call has not completed yet
ContextChangeInFlight ==
  \E t \in BagToSet(tasks) :
    t.pc = "close" /\ t.via \in {"setSelectedAnalysisId", "setPersona", "analyzeContent",
                                 "loadSession"}

C2_NoStaleTurn ==
  [][CallSendTextMessage => textChatSession.systemInstruction = ComposedNow]_vars

\* C3: at most one text turn is in flight. From the moment a sendTextMessage is
\* accepted until its stream is consumed or has failed no other sendTextMessage
\* is accepted, whatever runs in between.
C3_OneTurnInFlight ==
  BagCardinality([t \in {u \in BagToSet(tasks) : u.op = "sendTextMessage"} |-> tasks[t]]) <= 1

\* C4: at most one voice connection is open (opened and not yet closed), for
\* every interleaving of startRecording calls.
C4_OneVoiceConnection ==
  Cardinality({c \in DOMAIN conns : conns[c].status = "open"}) <= 1

\* C5: whenever the selected analysis id or the active persona changes, the chat
\* history is empty when the change is applied.
C5_ChatClearedOnChange ==
  [][(state'.selectedAnalysisId # state.selectedAnalysisId
        \/ state'.activePersona # state.activePersona)
      => state'.chatHistory = <<>>]_vars

\* the step is a removeAnalysis of the analysis that is selected
RemoveSelected ==
  \E i \in 1..Len(state.analyses) :
    /\ state.analyses[i].id = state.selectedAnalysisId
    /\ Commit(removeAnalysis(World, state.analyses[i].id))

C7_SelectionInStore ==
  state.selectedAnalysisId = Null \/ state.selectedAnalysisId \in storeIds

\* the text turns that are reading their stream
streamTasks == {t \in BagToSet(tasks) : t.op = "sendTextMessage" /\ t.pc = "stream"}

\* the image jobs in flight
imageTasks ==
  [t \in {u \in BagToSet(tasks) : u.op \in {"_triggerImageGeneration", "_triggerImageEditing"}}
     |-> tasks[t]]

\* the text with its first generate directive removed (the text itself when it
\* has none)
WithoutGenerate(text) ==
  IF generateRegex(text).found THEN RemoveMatch(text, generateRegex(text)) ELSE text

\* the text holds exactly one well-formed generate directive
OneGenerate(text) ==
  generateRegex(text).found /\ ~generateRegex(WithoutGenerate(text)).found

\* C8: within one assistant turn at most one image job is dispatched, however
\* the response is split and however many directives it holds: a directive that
\* an earlier fragment completed is not dispatched again by a later scan.
C8_AtMostOneJob ==
  /\ \A t \in streamTasks : Len(t.dispatched) <= 1
  /\ BagCardinality(imageTasks) <= 1

\* a response with two generate directives has come in several fragments, all
\* read, and the turn has dispatched one job
C8_Witness ==
  \E t \in streamTasks :
    /\ t.stream = <<>>
    /\ t.response = RespTwoGen
    /\ Len(t.dispatched) = 1
    /\ t.dispatched[1].buffer # RespTwoGen
    /\ BagCardinality(imageTasks) = 1

\* C9: for every split of a response with exactly one well-formed generate
\* directive (and no edit directive), one generate job is dispatched with its
\* count and prompt, and the text of the assistant message at the end of the
\* turn is the response with the directive removed (white space at its ends
\* aside), the same for every split.
C9_SplitIndependent ==
  \A t \in streamTasks :
    (t.stream = <<>> /\ OneGenerate(t.response) /\ ~editRegex(t.response).found) =>
      /\ Len(t.dispatched) = 1
      /\ t.dispatched[1].command =
           [kind |-> "generate", count |-> generateRegex(t.response).count,
            prompt |-> generateRegex(t.response).prompt]
      /\ msgs[t.modelMessage].text \in
           {WithoutGenerate(t.response), Trim(WithoutGenerate(t.response))}

\* C10: when the buffer holds a complete generate directive and a complete edit
\* directive at the scan that finds a match, the one that starts earlier in the
\* buffer is dispatched.
C10_EarlierDirectiveWins ==
  \A t \in streamTasks :
    \A n \in 1..Len(t.dispatched) :
      LET genMatch  == generateRegex(t.dispatched[n].buffer)
          editMatch == editRegex(t.dispatched[n].buffer)
      IN (genMatch.found /\ editMatch.found) =>
           t.dispatched[n].command.kind =
             IF genMatch.first < editMatch.first THEN "generate" ELSE "edit"

\* the text holds no complete well-formed directive
NoDirective(text) == ~generateRegex(text).found /\ ~editRegex(text).found

\* C11: when the assembled response of a turn holds no complete well-formed
\* directive (a count that is no number, a directive cut before its closing
\* bracket), the turn dispatches no image job and the assistant message shows
\* the response as it came, bracket text included, when the stream has ended.
C11_MalformedStaysVisible ==
  \A t \in streamTasks :
    NoDirective(t.response) =>
      /\ t.dispatched = <<>>
      /\ ~t.commandProcessed
      /\ imageTasks = EmptyBag
      /\ msgs[t.modelMessage].text = t.response
      /\ ~msgs[t.modelMessage].isLoadingImages

\* the stream of the response with the non-numeric count has been read to its
\* end: nothing was dispatched and the message shows the bracket text
C11_WitnessMalformed ==
  \E t \in streamTasks :
    /\ t.stream = <<>>
    /\ t.response = RespMalformed
    /\ t.dispatched = <<>>
    /\ msgs[t.modelMessage].text = RespMalformed

\* the text carries the piece as one of its elements
Carries(text, piece) == \E i \in 1..Len(text) : text[i] = piece

\* C12: an edit directive dispatched while lastGeneratedImages is empty starts
\* no edit job, leaves lastGeneratedImages empty and the loading flag unset, and
\* the assistant message carries the error suffix once the fragment that
\* completed the directive has been handled.
C12_EditWithoutImage ==
  \A t \in streamTasks :
    (/\ Len(t.dispatched) = 1
     /\ t.dispatched[1].command.kind = "edit"
     /\ state.lastGeneratedImages = <<>>) =>
      /\ imageTasks = EmptyBag
      /\ ~msgs[t.modelMessage].isLoadingImages
      /\ Carries(msgs[t.modelMessage].text, ErrNoImageToEdit)

\* C13: no image job is started while another one is in flight: at most one
\* generate or edit model call is pending at any time, over any sequence of turns.
C13_OneJobInFlight == BagCardinality(imageTasks) <= 1

\* C14: when a generate job succeeds, the target message stops loading, its
\* image URLs are the data URLs of the returned payloads in the returned order,
\* and lastGeneratedImages is exactly the returned batch: a batch kept from an
\* earlier job is replaced, never merged.
C14_GenerateReplacesBatch ==
  [][\A t \in BagToSet(tasks), images \in ImageBatches :
       (t.pc = "generateImages" /\ Commit(imagesGenerated(World, t, images))) =>
         /\ state'.lastGeneratedImages = images
         /\ t.lastMessage \in DOMAIN msgs' =>
              /\ ~msgs'[t.lastMessage].isLoadingImages
              /\ Len(msgs'[t.lastMessage].imageUrls) = Len(images)
              /\ \A i \in 1..Len(images) :
                   msgs'[t.lastMessage].imageUrls[i] = <<"data:", "image/png", ";base64,", images[i]>>]_vars

\* a batch of two images was shown on a message and a later job's batch of one
\* image is the batch that is kept
C14_WitnessReplaced ==
  /\ state.lastGeneratedImages = <<"i1">>
  /\ \E m \in DOMAIN msgs : Len(msgs[m].imageUrls) = 2 /\ ~msgs[m].isLoadingImages
  /\ \E m \in DOMAIN msgs : Len(msgs[m].imageUrls) = 1 /\ ~msgs[m].isLoadingImages
  /\ imageTasks = EmptyBag

\* the edit jobs that start in this step
editJobsStarted == { t \in BagToSet(tasks') \ BagToSet(tasks) : t.pc = "generateContent" }

\* an edit job submits the first image that is kept when it starts
EditSubmitsFirstKept ==
  [][\A t \in editJobsStarted :
       state.lastGeneratedImages # <<>> /\ t.imageToEdit = state.lastGeneratedImages[1]]_vars

\* a successful edit keeps exactly the edited image, and an edit that returns
\* no image keeps what was kept
EditReplacesKept ==
  [][\A t \in BagToSet(tasks), newText \in EditTexts, newImage \in EditImages :
       (t.pc = "generateContent" /\ Commit(imageEdited(World, t, newText, newImage))) =>
         state'.lastGeneratedImages =
           IF newImage # Null THEN <<newImage>> ELSE state.lastGeneratedImages]_vars

\* C15: edits chain. An edit job submits the first image of lastGeneratedImages,
\* a successful edit leaves lastGeneratedImages as exactly the edited image (an
\* edit that returns no image leaves it unchanged), and so each successful edit
\* has submitted the image that is kept when it succeeds, the result of the
\* edit before it.
C15_EditsChain ==
  [][/\ \A t \in editJobsStarted :
          state.lastGeneratedImages # <<>> /\ t.imageToEdit = state.lastGeneratedImages[1]
     /\ \A t \in BagToSet(tasks), newText \in EditTexts, newImage \in EditImages :
          (t.pc = "generateContent" /\ Commit(imageEdited(World, t, newText, newImage))) =>
            /\ state'.lastGeneratedImages =
                 IF newImage # Null THEN <<newImage>> ELSE state.lastGeneratedImages
            /\ newImage # Null => t.imageToEdit = state.lastGeneratedImages[1]]_vars

\* the assistant messages whose generate job (of ten images) has ended without
\* images, and whose turn has ended too
generateFailedAndOver ==
  { m \in DOMAIN msgs :
      /\ msgs[m].role = "model" /\ msgs[m].imageCount = 10 /\ msgs[m].imageUrls = <<>>
      /\ \A t \in BagToSet(tasks) : t.pc = "generateImages" => t.lastMessage # m
      /\ \A t \in streamTasks : t.modelMessage # m }

\* C16: a failed generateImages call clears the loading flag of its message, is
\* not retried, leaves lastGeneratedImages and isChatting as they were, and once
\* the turn and the job have both ended the message is not loading and its text
\* carries the error suffix.
C16_GenerateFailureReported ==
  [][/\ \A t \in BagToSet(tasks) :
          (t.pc = "generateImages" /\ Commit(imageGenerationFailed(World, t))) =>
            /\ ~msgs'[t.lastMessage].isLoadingImages
            /\ Carries(msgs'[t.lastMessage].text, ErrGenerate)
            /\ BagCardinality(imageTasks') = BagCardinality(imageTasks) - 1
            /\ state'.lastGeneratedImages = state.lastGeneratedImages
            /\ state'.isChatting = state.isChatting
     /\ \A m \in generateFailedAndOver' :
          ~msgs'[m].isLoadingImages /\ Carries(msgs'[m].text, ErrGenerate)]_vars

\* the image jobs in flight that a turn's message is waiting for
jobsOf(t) == { u \in BagToSet(tasks) : u.pc \in {"generateImages", "generateContent"}
                                        /\ u.lastMessage = t.modelMessage }

\* C17: an image job in flight never delays the text stream. After a directive
\* has been dispatched and while its job's model call is pending, a fragment
\* that arrives is appended to the assistant message in that step, and the end
\* of the stream ends the turn (isChatting becomes false) in that step; both
\* leave the job pending.
C17_JobNeverDelaysStream ==
  [][\A t \in streamTasks :
       (t.commandProcessed /\ jobsOf(t) # {}) =>
         /\ (t.stream # <<>> /\ Commit(streamChunk(World, t))) =>
              /\ msgs'[t.modelMessage].text = t.accumulatedText \o Head(t.stream)
              /\ imageTasks' = imageTasks
         /\ (t.stream = <<>> /\ Commit(streamEnded(World, t))) =>
              /\ ~state'.isChatting
              /\ imageTasks' = imageTasks]_vars

\* a turn has ended with the fragment that followed its directive shown on the
\* message, while the job of that message is still pending
C17_WitnessEndedWhilePending ==
  /\ ~state.isChatting
  /\ streamTasks = {}
  /\ \E u \in BagToSet(tasks) :
       /\ u.pc = "generateImages"
       /\ msgs[u.lastMessage].isLoadingImages
       /\ msgs[u.lastMessage].text = <<"H", "i", " ", "y", "o">>

\* the first id of a list of analyses (Null for the empty list)
firstId(analyses) == IF analyses # <<>> THEN analyses[1].id ELSE Null

\* C18: loadSession of a saved session restores the saved knowledge store in
\* content and order, selects its first analysis (Null when it is empty), and
\* rebuilds both connections: a voice connection that was open is closed by the
\* load, and when nothing is left to wait for the text session is a new one,
\* made for the instruction of the loaded store and persona.
C18_LoadRoundTrip ==
  [][\A i \in 1..Len(state.savedSessions) :
       LET s == state.savedSessions[i]
           selected == SelectSeq(s.analyses, LAMBDA a : a.id = firstId(s.analyses))
       IN Commit(loadSession(World, s.id)) =>
            /\ state'.analyses = s.analyses
            /\ state'.selectedAnalysisId = firstId(s.analyses)
            /\ session # Null => \E t \in BagToSet(tasks') : t.pc = "close"
            /\ session = Null =>
                 textChatSession' =
                   [systemInstruction |-> generateCompositeSystemInstruction(selected, s.activePersona),
                    history |-> <<>>]]_vars

\* C19: whenever no operation is in progress, the derived system instruction is
\* the one composed from the current selection and the current persona, after
\* any sequence of analyzeContent, removeAnalysis, updateAnalysisSummary,
\* insertImageIntoAnalysis, setSelectedAnalysisId, setPersona, resetSession and
\* loadSession.
C19_InstructionFollowsContext ==
  tasks = EmptyBag => state.systemInstruction = ComposedNow

\* lines 74-80 of the constructor: onInputAudio sends the audio it is given
\* over this.session when the state is recording and there is a session
audioIsSent == state.isRecording /\ session # Null

\* C20: no voice turn is served against a stale instruction. Whenever audio is
\* sent over the voice connection, that connection was opened with the
\* instruction that is derived now, also when the context changed while the
\* connect request was pending.
C20_VoiceInstructionCurrent ==
  audioIsSent => conns[session].systemInstruction = state.systemInstruction

\* the world after the close that task t awaits has completed: lines 201-215 of
\* resetSession, then the rest of the method that awaited it
closeCompleted(t) ==
  afterReset(afterClose([dropTask(World, t) EXCEPT !.session = Null], t.clearAnalyses), t.via)

\* C21: a rebuild closes the connection and reopens it at once with the current
\* instruction. When a context change (selection, persona, summary edit or
\* image insertion) that closed the voice connection completes, the voice
\* connection is open again and was opened with the derived instruction, and so
\* was the text session.
C21_RebuildReopens ==
  [][\A t \in BagToSet(tasks) :
       (t.pc = "close" /\ t.via # Null /\ Commit(closeCompleted(t))) =>
         /\ session' # Null
         /\ conns'[session'].status = "open"
         /\ conns'[session'].systemInstruction = state'.systemInstruction
         /\ textChatSession'.systemInstruction = state'.systemInstruction]_vars

\* the connect requests in flight
connectTasks == { t \in BagToSet(tasks) : t.pc = "connect" }

closeTasks == { t \in BagToSet(tasks) : t.pc = "close" }

\* C23: closing the voice connection never races microphone capture. In the
\* step that starts a close, and in the step in which a close completes, the
\* recording flag is false.
C23_CloseNeverRacesCapture ==
  [][/\ closeTasks' \ closeTasks # {} => ~state'.isRecording
     /\ \A t \in closeTasks :
          Commit(closeCompleted(t)) => ~state.isRecording /\ ~state'.isRecording]_vars

\* the instruction holds one knowledge block for each analysis of the store, in
\* order, with the summary of that analysis
HoldsWholeStore(instruction) ==
  /\ Len(instruction.sources) = Len(state.analyses)
  /\ \A i \in 1..Len(state.analyses) :
       instruction.sources[i].content = state.analyses[i].summary

\* C24: the system instruction sent to the voice and text models combines the
\* summaries of all content analysed in the session. Once several analyses are
\* in the store and no operation is in flight, the derived instruction and the
\* instruction of the text session hold the summary of every analysis of the
\* store, not only of the selected one.
C24_InstructionCombinesAll ==
  (tasks = EmptyBag /\ Len(state.analyses) >= 2) =>
    /\ HoldsWholeStore(state.systemInstruction)
    /\ HoldsWholeStore(textChatSession.systemInstruction)

\* the composer has been called in this run
composed == tasks = EmptyBag

\* the analysis at place i goes through a workflow branch of the composer
decodedAt(i) ==
  /\ state.analyses[i].type = "workflow"
  /\ Len(state.analyses) = 1 => state.analyses[i].persona # "analyst"

\* C25 as stated: for every list of one or more analyses, of every type and
\* persona, the composed instruction holds the title and the summary of each
\* analysis as they are, and for the empty list it holds no analysis content.
C25_ComposeVerbatim ==
  composed =>
    /\ Len(state.systemInstruction.sources) = Len(state.analyses)
    /\ \A i \in 1..Len(state.analyses) :
         /\ state.systemInstruction.sources[i].title = state.analyses[i].title
         /\ state.systemInstruction.sources[i].content = state.analyses[i].summary

\* C25, amended: the composed instruction holds one block for each analysis, in
\* order, with its title as it is, and with its summary as it is unless the
\* analysis goes through a workflow branch, where the block holds one piece of
\* text instead; for the empty list it holds no block.
C25_ComposeVerbatimButWorkflow ==
  composed =>
    /\ Len(state.systemInstruction.sources) = Len(state.analyses)
    /\ \A i \in 1..Len(state.analyses) :
         /\ state.systemInstruction.sources[i].title = state.analyses[i].title
         /\ ~decodedAt(i) =>
              state.systemInstruction.sources[i].content = state.analyses[i].summary
         /\ decodedAt(i) =>
              /\ Len(state.systemInstruction.sources[i].content) = 1
              /\ DOMAIN state.systemInstruction.sources[i].content[1] = {"text"}

\* the composer was called with two analyses of different titles and types,
\* the second one a workflow
C25_WitnessTwoSources ==
  /\ composed
  /\ Len(state.analyses) = 2
  /\ state.analyses[1].title # state.analyses[2].title
  /\ state.analyses[1].type = "github"
  /\ state.analyses[2].type = "workflow"
  /\ Len(state.systemInstruction.sources) = 2

\* the summary is no envelope the composer can read: it is not JSON, it is JSON
\* with neither field, or its base64 payload cannot be decoded
Unreadable(summary) ==
  \/ ~IsJson(summary)
  \/ /\ IsJson(summary)
     /\ \/ summary[1].summary_base64 = Null /\ summary[1].summary = Null
        \/ summary[1].summary_base64 = "invalid"

\* the fixed texts the composer puts in a block in place of a summary
Placeholders ==
  { <<[text |-> "Ocorreu um erro ao processar o resumo do fluxo de trabalho."]>>,
    <<[text |-> "O resumo do fluxo de trabalho estava vazio."]>>,
    <<[text |-> "Erro ao processar o resumo do fluxo de trabalho."]>>,
    <<[text |-> "Resumo do fluxo de trabalho indisponível."]>> }

C27_ListenersNotified ==
  [][/\ state' # state =>
          \A h \in 1..Len(bus'.subscriptions) :
            bus'.subscriptions[h].active => bus'.subscriptions[h].listener \in bus'.invoked
     /\ bus'.late = {}]_vars

\* C28: the fragments of a turn are written only to the assistant message that
\* was created for that turn. A step that delivers a fragment of turn t changes
\* the text of no other message: not of a message of the chat of a new context,
\* not of the assistant message of a later turn.
C28_FragmentsStayInTurn ==
  [][\A t \in streamTasks :
       (t.stream # <<>> /\ Commit(streamChunk(World, t))) =>
         \A m \in DOMAIN msgs \cap DOMAIN msgs' :
           msgs'[m].text # msgs[m].text => m = t.modelMessage]_vars

\* the generate jobs that are in flight
generateTasks == { t \in BagToSet(tasks) : t.pc = "generateImages" }

\* C29: a selection change empties lastGeneratedImages, and an image job that
\* was dispatched before the change and completes after it does not fill
\* lastGeneratedImages of the new context: a job whose message is no longer in
\* the chat history leaves lastGeneratedImages as it is when it completes.
C29_OldJobsDoNotFill ==
  [][/\ state'.selectedAnalysisId # state.selectedAnalysisId => state'.lastGeneratedImages = <<>>
     /\ \A t \in BagToSet(tasks) :
          (/\ t.pc \in {"generateImages", "generateContent"}
           /\ \A i \in 1..Len(state.chatHistory) : state.chatHistory[i] # t.lastMessage
           /\ tasks' = tasks (-) SetToBag({t})) =>
            state'.lastGeneratedImages = state.lastGeneratedImages]_vars

\* C30: every voice connection that was opened is closed exactly once before
\* its handle is dropped. The handle is never set to null, nor replaced by
\* another connection, while the connection it holds has not been closed, and
\* close is never called twice on one connection.
C30_ClosedExactlyOnce ==
  [][/\ (session # Null /\ session' # session) => conns[session].closes = 1
     /\ \A c \in DOMAIN conns' : conns'[c].closes <= 1]_vars

\* C31: no partial state is observable. No listener is ever invoked on a state
\* whose derived instruction is not the one composed from the selection and the
\* persona of that same state.
C31_NoPartialState == ~bus.partial

\* C32: every accepted sendTextMessage eventually ends its turn. Whenever
\* isChatting is true it eventually becomes false, so that a later
\* sendTextMessage is accepted, whether the stream completes, the request fails
\* before an assistant message was created, or the stream fails midway.
C32_TurnEnds == state.isChatting ~> ~state.isChatting

\* the messages of the chat history that pass `keep`, in order, as the role and
\* the text that a seed history holds of each
seedOf(history, messages, keep(_)) ==
  LET kept == SelectSeq(history, LAMBDA m : keep(messages[m]))
  IN [i \in 1..Len(kept) |-> [role |-> messages[kept[i]].role, text |-> messages[kept[i]].text]]

CarriesNoImages(m) == m.imageUrls = <<>>
HasText(m) == m.text # <<>>

\* C33 as stated: when the text session is rebuilt, its seed history is the
\* chat history, in order, without the messages that carry image payloads and
\* with every other message.
C33_SeedLeavesOutImages ==
  [][textChatSession' # textChatSession =>
       textChatSession'.history = seedOf(state'.chatHistory, msgs', CarriesNoImages)]_vars

\* C33, amended: when the text session is rebuilt, its seed history is the
\* chat history, in order, without the messages whose text is empty and with
\* the role and the text of every other message, whether or not it carries
\* images.
C33_SeedLeavesOutEmptyText ==
  [][textChatSession' # textChatSession =>
       textChatSession'.history = seedOf(state'.chatHistory, msgs', HasText)]_vars

\* a text session was rebuilt over a chat that holds a message with text and
\* images, and the seed history holds the text of that message
C33_WitnessSeedWithImageMessage ==
  /\ textChatSession.history # <<>>
  /\ textChatSession.history = seedOf(state.chatHistory, msgs, HasText)
  /\ \E i \in 1..Len(state.chatHistory) :
       /\ msgs[state.chatHistory[i]].imageUrls # <<>>
       /\ msgs[state.chatHistory[i]].text # <<>>

\* C34: whenever the recording flag is true a voice connection is open, so that
\* the audio frames onInputAudio is given are sent and not dropped: the handle
\* is set and the connection it holds is open.
C34_RecordingHasConnection ==
  state.isRecording => (session # Null /\ conns[session].status = "open")

IsPrefix(s, t) == Len(s) <= Len(t) /\ SubSeq(t, 1, Len(s)) = s

\* C35: the timeline event log is append-only. Every operation, loadSession
\* and resetSession included, leaves the previous log as a prefix of the new
\* log.
C35_TimelineAppendOnly ==
  [][IsPrefix(state.timelineEvents, state'.timelineEvents)]_vars

\* the template that the specification gives to each pair of analysis persona
\* and type, as a table
TemplateTable ==
  [persona \in {"assistant", "analyst"}, type \in {"url", "github", "youtube", "video", "workflow"} |->
     CASE persona = "analyst"  -> "analyst"
       [] persona # "analyst" /\ type = "github"   -> "github"
       [] persona # "analyst" /\ type = "youtube"  -> "video"
       [] persona # "analyst" /\ type = "video"    -> "video"
       [] persona # "analyst" /\ type = "workflow" -> "workflow"
       [] OTHER -> "default"]

\* C36: for exactly one analysis the composer selects one template for every
\* pair of analysis persona and type, by precedence: the persona analyst gives
\* the data-analyst template whatever the type; otherwise github gives the
\* repository template, youtube or video the video template, workflow the
\* workflow template and every other type the default template.
C36_TemplatePrecedence ==
  (composed /\ Len(state.analyses) = 1) =>
    state.systemInstruction.template =
      TemplateTable[state.analyses[1].persona, state.analyses[1].type]

\* the composer was called with one analysis of persona analyst and of type
\* github, and the instruction is the one of the data analyst
C36_WitnessAnalystOverType ==
  /\ composed
  /\ Len(state.analyses) = 1
  /\ state.analyses[1].persona = "analyst"
  /\ state.analyses[1].type = "github"
  /\ state.systemInstruction.template = "analyst"

jobTasks(bag) == { t \in BagToSet(bag) : t.pc \in {"generateImages", "generateContent"} }

\* C37: an image job never changes the length or the order of the chat history
\* and never modifies a message other than the assistant message of the turn
\* that dispatched it. The job that a stream dispatches is tied to the
\* assistant message of that stream's turn, and when a job returns the chat
\* history is the same list and every other message is as it was, also when the
\* chat was cleared or a new turn was started in between.
C37_JobTouchesOwnMessageOnly ==
  [][/\ \A u \in jobTasks(tasks') \ jobTasks(tasks) :
          \A t \in BagToSet(tasks) \ BagToSet(tasks') :
            t.pc = "stream" => u.lastMessage = t.modelMessage
     /\ \A u \in jobTasks(tasks) :
          tasks' = tasks (-) SetToBag({u}) =>
            /\ state'.chatHistory = state.chatHistory
            /\ \A m \in DOMAIN msgs \cap DOMAIN msgs' :
                 m # u.lastMessage => msgs'[m] = msgs[m]]_vars

\* C38: stopRecording is independent of connection teardown. A call of it
\* leaves the recording flag false and the voice connection handle, the text
\* session, the chat history, the selection and the derived instruction as
\* they were, and when recording is not active it changes nothing at all.
C38_StopRecordingFrame ==
  [][/\ Commit(stopRecording(World)) =>
          /\ ~state'.isRecording
          /\ session' = session
          /\ conns' = conns
          /\ textChatSession' = textChatSession
          /\ state'.chatHistory = state.chatHistory
          /\ state'.selectedAnalysisId = state.selectedAnalysisId
          /\ state'.systemInstruction = state.systemInstruction
     /\ ~state.isRecording => stopRecording(World) = World]_vars

\* recording was stopped during a text turn: the flag is false and no start is
\* pending, while the connection is still there and open
C38_WitnessStoppedKeepsConnection ==
  /\ ~state.isRecording
  /\ \A t \in BagToSet(tasks) : t.pc \notin {"connect", "start"}
  /\ session # Null
  /\ conns[session].status = "open"
  /\ state.isChatting
  /\ state.chatHistory # <<>>

\* the calls of analyzeContent that have not returned: those that wait for the
\* content analysis and those that wait for the close of the voice connection
analyzeCalls(bag) ==
  BagCardinality([t \in {u \in BagToSet(bag) :
                           \/ u.pc = "handleAnalysisRequest"
                           \/ u.pc = "close" /\ u.via = "analyzeContent"} |-> bag[t]])

\* C39: if the content analysis fails, analyzeContent leaves the knowledge
\* store, the selection, the derived instruction, the chat history and both
\* connections as they were and reports an error; and whether it fails or
\* succeeds, processingState.active is false when analyzeContent returns.
C39_FailedAnalysisChangesNothing ==
  [][/\ \A t \in BagToSet(tasks) :
          (t.pc = "handleAnalysisRequest" /\ Commit(analysisFailed(World, t).world)) =>
            /\ state'.analyses = state.analyses
            /\ state'.selectedAnalysisId = state.selectedAnalysisId
            /\ state'.systemInstruction = state.systemInstruction
            /\ state'.chatHistory = state.chatHistory
            /\ session' = session
            /\ conns' = conns
            /\ textChatSession' = textChatSession
            /\ analysisFailed(World, t).report.error # <<>>
     /\ analyzeCalls(tasks') < analyzeCalls(tasks) => ~state'.processingState.active]_vars

\* an analysis has failed and another has succeeded while a text turn was in
\* flight, every call of analyzeContent has returned, and the processing state
\* is not active
C39_WitnessFailedAndDone ==
  /\ clock.failed = 1
  /\ clock.analyses = 1
  /\ analyzeCalls(tasks) = 0
  /\ \E t \in BagToSet(tasks) : t.pc = "stream"
  /\ Len(state.analyses) = 1
  /\ ~state.processingState.active

\* the terms of the search history differ pairwise, ignoring case
NoTwoEqualTerms(history) ==
  \A i, j \in 1..Len(history) :
    i # j => toLowerCase(history[i].term) # toLowerCase(history[j].term)

\* `shorter` is `longer` with some entries removed
OnlyRemoved(longer, shorter) ==
  \E ids \in SUBSET {longer[i].id : i \in 1..Len(longer)} :
    shorter = SelectSeq(longer, LAMBDA x : x.id \notin ids)

\* C40: the search history never holds two entries whose terms are equal
\* ignoring case. A step either puts one entry at its front, whose term is
\* trimmed, not empty, not a URL and matched by no entry that was there, or it
\* only removes entries.
C40_SearchHistoryDistinct ==
  [][/\ NoTwoEqualTerms(state'.searchHistory)
     /\ \/ OnlyRemoved(state.searchHistory, state'.searchHistory)
        \/ /\ state'.searchHistory # <<>>
           /\ Tail(state'.searchHistory) = state.searchHistory
           /\ LET term == Head(state'.searchHistory).term
              IN /\ term = Trim(term)
                 /\ term # <<>>
                 /\ ~isValidUrl(term)
                 /\ \A i \in 1..Len(state.searchHistory) :
                      toLowerCase(state.searchHistory[i].term) # toLowerCase(term)]_vars

\* two analyses were asked for and the search history holds one entry, whose
\* term is in upper case, while nothing was deleted: a topic that differs from
\* it by case or blanks, a URL or a file was not added
C40_WitnessSecondTopicSkipped ==
  /\ clock.analyses + clock.failed = 2
  /\ state.timelineEvents = <<>>
  /\ Len(state.searchHistory) = 1
  /\ state.searchHistory[1].term = <<"A">>

====
